---------------------------- MODULE Spec2Model ----------------------------
(***************************************************************************)
(* A model of NewRYMGenerator (src/main.py): the page parser, the catalog  *)
(* resolver with its similarity gate, the chunker, the playlist writer and *)
(* the main pipeline that drives them.                                     *)
(*                                                                         *)
(* Text is modelled as a sequence of one-character strings, a URL as the   *)
(* sequence of its slashes and path segments, a catalog uri as a pair      *)
(* <<kind, number>>, the empty string "" as the empty sequence.  A Python  *)
(* call that may raise is modelled by [raised |-> BOOLEAN, value |-> ...]. *)
(* A similarity threshold is an integer number of hundredths (95 is 0.95). *)
(***************************************************************************)
EXTENDS Integers, Sequences, FiniteSets, TLC

VARIABLES
    \* a single call of a library function, checked on its own
    call,            \* [fn |-> name, ...arguments...]
    ret,             \* [raised |-> BOOLEAN, value |-> ...] once returned
    phase,           \* "idle" | "called" | "returned"
    \* the main pipeline (src/main.py:336-383)
    pc,              \* position in __main__
    add_to_existing, \* the lowered answer to the first prompt
    playlist_name,   \* the answer to the second prompt (an id or a name)
    pages,           \* the documents of ./pages/, in listdir order
    list_entries,    \* what get_entries returned
    index,           \* loop counter over list_entries
    to_be_added,     \* accumulated track identifiers
    playlist,        \* id returned by create_playlist
    resolved,        \* per entry resolved so far: album_items, or <<item>>
    calls            \* log of the calls made to the catalog service

vars == <<call, ret, phase, pc, add_to_existing, playlist_name, pages,
          list_entries, index, to_be_added, playlist, resolved, calls>>

callVars == <<call, ret, phase>>
mainVars == <<pc, add_to_existing, playlist_name, pages, list_entries,
              index, to_be_added, playlist, resolved, calls>>

-----------------------------------------------------------------------------
(* Bounds of the model *)

MaxLen == 5          \* longest list handed to divide_chunks on its own
MaxSize == 3         \* chunk sizes range over -MaxSize..MaxSize
MaxTracks == 200     \* longest list handed to add_tracks_to_playlist
MaxTitleLen == 3     \* longest title text in the resolver's inputs
MaxPages == 2        \* documents in the page directory
MaxNodes == 3        \* entry nodes in the page directory, all pages together
MaxAlbum == 99       \* tracks the service lists for the larger album

-----------------------------------------------------------------------------
(* Generic helpers *)

Min(a, b) == IF a <= b THEN a ELSE b

RECURSIVE Flatten(_)
Flatten(ss) == IF ss = <<>> THEN <<>> ELSE Head(ss) \o Flatten(Tail(ss))

\* All sequences over S of length at most n.
SeqsUpTo(S, n) == UNION {[1..k -> S] : k \in 0..n}

\* Python  sub in s  for sequences: sub occurs contiguously in s.
Contains(sub, s) ==
    \E k \in 0..(Len(s) - Len(sub)) :
        \A d \in 1..Len(sub) : s[k + d] = sub[d]

-----------------------------------------------------------------------------
(* Utils.str_similarity: difflib.SequenceMatcher(None, a, b).ratio()       *)

\* The blocks a[i+1..i+k] = b[j+1..j+k] inside a[alo+1..ahi], b[blo+1..bhi].
CommonBlocks(a, b, alo, ahi, blo, bhi) ==
    {t \in (alo..(ahi - 1)) \X (blo..(bhi - 1)) \X (1..(ahi - alo)) :
        /\ t[1] + t[3] <= ahi
        /\ t[2] + t[3] <= bhi
        /\ \A d \in 1..t[3] : a[t[1] + d] = b[t[2] + d]}

\* find_longest_match: the longest block; of those the one starting
\* earliest in a; of those the one starting earliest in b.
find_longest_match(a, b, alo, ahi, blo, bhi) ==
    LET B == CommonBlocks(a, b, alo, ahi, blo, bhi) IN
    IF B = {} THEN <<alo, blo, 0>>
    ELSE CHOOSE t \in B :
            \A u \in B :
                \/ t[3] > u[3]
                \/ t[3] = u[3] /\ t[1] < u[1]
                \/ t[3] = u[3] /\ t[1] = u[1] /\ t[2] <= u[2]

\* get_matching_blocks, summed: the size of the longest block plus what the
\* same search finds to its left and to its right.
RECURSIVE matches(_, _, _, _, _, _)
matches(a, b, alo, ahi, blo, bhi) ==
    LET m == find_longest_match(a, b, alo, ahi, blo, bhi)
        i == m[1]
        j == m[2]
        k == m[3]
    IN  IF k = 0 THEN 0
        ELSE k
             + (IF alo < i /\ blo < j
                THEN matches(a, b, alo, i, blo, j) ELSE 0)
             + (IF i + k < ahi /\ j + k < bhi
                THEN matches(a, b, i + k, ahi, j + k, bhi) ELSE 0)

\* ratio() is 2.0*M/T, and 1.0 when T = 0.  The ratio is returned as the pair
\* <<2*M, T>> and compared with a threshold of thr hundredths exactly.
str_similarity(lhs_title, rhs_title) ==
    <<2 * matches(lhs_title, rhs_title, 0, Len(lhs_title), 0, Len(rhs_title)),
      Len(lhs_title) + Len(rhs_title)>>

\* similarity >= similarity_threshold
AtLeast(sim, thr) ==
    IF sim[2] = 0 THEN 100 >= thr ELSE 100 * sim[1] >= thr * sim[2]


-----------------------------------------------------------------------------
(* Utils.divide_chunks *)

DefaultChunkSize == 99       \* the default of parameter n
ChunkThreshold == 99         \* the length from which the writer chunks

\* Python range(start, stop, step) for step # 0.
RECURSIVE PyRange(_, _, _)
PyRange(start, stop, step) ==
    IF (step > 0 /\ start >= stop) \/ (step < 0 /\ start <= stop)
    THEN <<>>
    ELSE <<start>> \o PyRange(start + step, stop, step)

\* Python l[x:y] for 0 <= x <= y: positions x+1..min(y, len(l)).
Slice(l, x, y) == SubSeq(l, x + 1, Min(y, Len(l)))

\* divide_chunks stopping at the last full chunk: range(0, len(l) - len(l) % n, n)
divide_chunks_DropTail(l, n) ==
    IF n = 0
    THEN [raised |-> TRUE, value |-> <<>>]
    ELSE LET xs == PyRange(0, Len(l) - (IF n > 0 THEN Len(l) % n ELSE 0), n) IN
         [raised |-> FALSE,
          value  |-> [c \in 1..Len(xs) |-> Slice(l, xs[c], xs[c] + n)]]

\* [l[x:x+n] for x in range(0, len(l), n)]; range raises ValueError on a
\* zero step and is empty on a negative one.
divide_chunks(l, n) ==
    IF n = 0
    THEN [raised |-> TRUE, value |-> <<>>]
    ELSE LET xs == PyRange(0, Len(l), n) IN
         [raised |-> FALSE,
          value  |-> [c \in 1..Len(xs) |-> Slice(l, xs[c], xs[c] + n)]]

-----------------------------------------------------------------------------
(* The catalog service: the calls made to it are logged as records *)

Request(op, target, items) == [op |-> op, target |-> target, items |-> items]

\* SpotifyAuthManager.add_tracks_to_playlist: the playlist_add_items calls it
\* makes, in order.
add_tracks_to_playlist(playlist_id, tracks) ==
    IF Len(tracks) >= ChunkThreshold
    THEN LET chunks == divide_chunks(tracks, DefaultChunkSize).value IN
         [c \in 1..Len(chunks) |->
             Request("playlist_add_items", playlist_id, chunks[c])]
    ELSE <<Request("playlist_add_items", playlist_id, tracks)>>

\* SpotifyAuthManager.create_playlist: the one user_playlist_create call.
create_playlist(title) == Request("user_playlist_create", title, <<>>)

\* f"{artist_name} {title}"
Query(artist_name, title) == artist_name \o <<" ">> \o title

\* similarity_threshold's default, in hundredths
DefaultThreshold == 95

\* The gate with  or  in place of  and
Gate_Either(artist_similarity, title_similarity, similarity_threshold) ==
    \/ AtLeast(artist_similarity, similarity_threshold)
    \/ AtLeast(title_similarity, similarity_threshold)

\* The gate of both resolvers:
\*   artist_similarity >= threshold and title_similarity >= threshold
Gate(artist_similarity, title_similarity, similarity_threshold) ==
    /\ AtLeast(artist_similarity, similarity_threshold)
    /\ AtLeast(title_similarity, similarity_threshold)

\* The last of the search results in place of the first
TopHit_Last(found) == found[Len(found)]

\* The result the resolvers look at: the first of the search results.
TopHit(found) == found[1]

\* The empty string, which get_track returns for "no track".
EmptyStr == <<>>

\* SpotifyAuthManager.get_track, given what the track search returned:
\* the uri of the first result, or "" (the empty identifier).
get_track(artist_name, title, similarity_threshold, found) ==
    IF found = <<>> THEN EmptyStr
    ELSE LET track == TopHit(found) IN
         IF similarity_threshold = 0 THEN track.uri
         ELSE LET artist     == track.artists[1]
                  track_name == track.name
              IN  IF Gate(str_similarity(artist, artist_name),
                          str_similarity(track_name, title),
                          similarity_threshold)
                  THEN track.uri
                  ELSE EmptyStr

\* SpotifyAuthManager.get_tracks_from_album, given what the album search
\* returned and the service's track listing per album: the uris listed for
\* the first result, or the empty list.  The title is scored as
\* str_similarity(title, album_name): the query first, the result second.
get_tracks_from_album(artist_name, title, similarity_threshold, found, album_tracks) ==
    IF found = <<>> THEN <<>>
    ELSE LET album    == TopHit(found)
             album_id == album.uri
         IN  IF similarity_threshold = 0 THEN album_tracks[album_id]
             ELSE LET album_name == album.name
                      artist     == album.artists[1]
                  IN  IF Gate(str_similarity(artist, artist_name),
                              str_similarity(title, album_name),
                              similarity_threshold)
                      THEN album_tracks[album_id]
                      ELSE <<>>

\* Whether get_tracks_from_album reaches its album_tracks call.
ListsAlbum(artist_name, title, similarity_threshold, found) ==
    /\ found # <<>>
    /\ \/ similarity_threshold = 0
       \/ Gate(str_similarity(TopHit(found).artists[1], artist_name),
               str_similarity(title, TopHit(found).name),
               similarity_threshold)

-----------------------------------------------------------------------------
(* RYMParser.  A page is the sequence of its td.main_entry nodes.  A node   *)
(* is [list_album, list_artist]; each is <<>> when the node has no such     *)
(* link and <<x>> when it has.  A list_album link is [href, text], href     *)
(* being <<>> (no href attribute) or <<url>>.                               *)

SinglePattern == <<"/", "release", "/", "single", "/">>

Entry(artist, title, type) == [artist |-> artist, title |-> title, type |-> type]

\* url.startswith("/release/single/") in place of the in test
release_type_Prefix(url) ==
    IF /\ Len(url) >= Len(SinglePattern)
       /\ SubSeq(url, 1, Len(SinglePattern)) = SinglePattern
    THEN "track" ELSE "album"

\* "track" if "/release/single/" in url else "album"
release_type(url) == IF Contains(SinglePattern, url) THEN "track" ELSE "album"

\* A parser that skips the rows it cannot read instead of raising
parse_page_SkipBad(list_items) ==
    LET Readable(item) ==
            /\ item.list_album # <<>>
            /\ item.list_artist # <<>>
            /\ item.list_album[1].href # <<>>
        good == SelectSeq(list_items, Readable)
    IN  IF Len(good) = 0
        THEN [raised |-> TRUE, value |-> <<>>]
        ELSE [raised |-> FALSE,
              value  |-> [i \in 1..Len(good) |->
                            Entry(good[i].list_artist[1],
                                  good[i].list_album[1].text,
                                  release_type(good[i].list_album[1].href[1]))]]

\* parse_page raises when the page has no node (the assertion), when a node
\* has no list_album link (.get on None), no list_artist link (.text on
\* None) or no href (the in test on None).
parse_page(list_items) ==
    IF \/ Len(list_items) = 0
       \/ \E i \in 1..Len(list_items) :
            \/ list_items[i].list_album = <<>>
            \/ list_items[i].list_artist = <<>>
            \/ list_items[i].list_album[1].href = <<>>
    THEN [raised |-> TRUE, value |-> <<>>]
    ELSE [raised |-> FALSE,
          value  |-> [i \in 1..Len(list_items) |->
                        Entry(list_items[i].list_artist[1],
                              list_items[i].list_album[1].text,
                              release_type(list_items[i].list_album[1].href[1]))]]

\* get_entries raises when there is no page (the assertion) or when
\* parse_page raises; otherwise it extends one list page after page.
get_entries(dir) ==
    IF \/ Len(dir) = 0
       \/ \E p \in 1..Len(dir) : parse_page(dir[p]).raised
    THEN [raised |-> TRUE, value |-> <<>>]
    ELSE [raised |-> FALSE,
          value  |-> Flatten([p \in 1..Len(dir) |-> parse_page(dir[p]).value])]

-----------------------------------------------------------------------------
(* Inputs *)

Alphabet == {"a", "b", "c"}

\* A search result: its uri, its display name, the names of its artists.
Candidate(uri, name, artists) == [uri |-> uri, name |-> name, artists |-> artists]

\* The service's track listing of each album, in the service's order.
Uri(kind, number) == <<kind, number>>

AlbumTracks ==
    [u \in {Uri("album", 1), Uri("album", 2)} |->
        IF u = Uri("album", 1)
        THEN [i \in 1..MaxAlbum |-> Uri("track", MaxAlbum + 1 - i)]
        ELSE <<Uri("track", 0)>>]

NoLink == <<>>
Link(href, text) == <<[href |-> href, text |-> text]>>
Node(list_album, list_artist) == [list_album |-> list_album, list_artist |-> list_artist]

\* The rows a page may hold: <<href, artist text, title text>>.
Rows ==
    { << <<"/", "release", "/", "single", "/", "x", "/">>, <<"a">>, <<"x">> >>,
      << <<"/", "release", "/", "album", "/", "x", "/">>, <<"b">>, <<"y">> >>,
      << <<"/", "release", "/", "ep", "/", "single", "/">>, <<"a">>, <<"y">> >>,
      << <<"https:", "/", "/", "rym", "/", "release", "/", "single", "/", "x", "/">>,
         <<"b">>, <<"x">> >> }

WellFormedNodes ==
    { Node(Link(<<row[1]>>, row[3]), <<row[2]>>) : row \in Rows }

MalformedNodes ==
    { Node(NoLink, <<<<"a">>>>),                        \* no list_album link
      Node(Link(<<>>, <<"x">>), <<<<"a">>>>),           \* a link without href
      Node(Link(<<<<"/", "release", "/", "single", "/">>>>, <<"x">>),
           <<>>) }                                      \* no list_artist link

Nodes == WellFormedNodes \cup MalformedNodes

\* The directories of exactly m pages holding at most t nodes together.
RECURSIVE DirsOf(_, _, _)
DirsOf(N, m, t) ==
    IF m = 0 THEN {<<>>}
    ELSE UNION { { <<p>> \o d : d \in DirsOf(N, m - 1, t - Len(p)) } :
                    p \in SeqsUpTo(N, t) }

Dirs(N) == UNION { DirsOf(N, m, MaxNodes) : m \in 0..MaxPages }

-----------------------------------------------------------------------------
(* A library function called on its own *)

Idle ==
    /\ pc = "idle"
    /\ add_to_existing = ""
    /\ playlist_name = ""
    /\ pages = <<>>
    /\ list_entries = <<>>
    /\ index = 0
    /\ to_be_added = <<>>
    /\ playlist = ""
    /\ resolved = <<>>
    /\ calls = <<>>

Called(c) ==
    /\ call = c
    /\ ret = [raised |-> FALSE, value |-> <<>>]
    /\ phase = "called"
    /\ Idle

Return(r) ==
    /\ phase = "called"
    /\ phase' = "returned"
    /\ ret' = r
    /\ UNCHANGED <<call, mainVars>>

Returned(fn) == phase = "returned" /\ call.fn = fn

\* Utils.divide_chunks
InitChunk ==
    \E l \in SeqsUpTo({1, 2}, MaxLen), n \in (-MaxSize)..MaxSize :
        Called([fn |-> "divide_chunks", l |-> l, n |-> n])

DivideChunksCall ==
    /\ call.fn = "divide_chunks"
    /\ Return(divide_chunks(call.l, call.n))

SpecChunk == InitChunk /\ [][DivideChunksCall]_vars

\* SpotifyAuthManager.add_tracks_to_playlist
InitPublish ==
    \E k \in 0..MaxTracks, id \in {"PL_1", "PL_2"} :
        Called([fn |-> "add_tracks_to_playlist", playlist_id |-> id,
                tracks |-> [i \in 1..k |-> i]])

AddTracksCall ==
    /\ call.fn = "add_tracks_to_playlist"
    /\ Return([raised |-> FALSE,
               value  |-> add_tracks_to_playlist(call.playlist_id, call.tracks)])

SpecPublish == InitPublish /\ [][AddTracksCall]_vars

\* SpotifyAuthManager.get_track and get_tracks_from_album
Thresholds == {0, 50, DefaultThreshold}

Found(artist_name, title, uris) ==
    LET Titles == SeqsUpTo(Alphabet, MaxTitleLen) IN
    {<<>>}
    \cup { <<Candidate(uris[1], name, <<artist>>)>> :
              name \in Titles, artist \in {<<"a">>, <<"b">>} }
    \cup { <<Candidate(uris[1], name, <<artist, artist_name>>),
             Candidate(uris[2], title, <<artist_name>>)>> :
              name \in Titles, artist \in {<<"a">>, <<"b">>} }

InitResolve ==
    \E artist_name \in {<<"a">>, <<"a", "b">>},
       title \in SeqsUpTo(Alphabet, MaxTitleLen),
       thr \in Thresholds :
        \/ \E found \in Found(artist_name, title, <<Uri("track", 107), Uri("track", 108)>>) :
              Called([fn |-> "get_track", artist_name |-> artist_name,
                      title |-> title, similarity_threshold |-> thr,
                      found |-> found])
        \/ \E found \in Found(artist_name, title, <<Uri("album", 1), Uri("album", 2)>>) :
              Called([fn |-> "get_tracks_from_album", artist_name |-> artist_name,
                      title |-> title, similarity_threshold |-> thr,
                      found |-> found])

GetTrackCall ==
    /\ call.fn = "get_track"
    /\ Return([raised |-> FALSE,
               value  |-> get_track(call.artist_name, call.title,
                                    call.similarity_threshold, call.found)])

GetTracksFromAlbumCall ==
    /\ call.fn = "get_tracks_from_album"
    /\ Return([raised |-> FALSE,
               value  |-> get_tracks_from_album(call.artist_name, call.title,
                              call.similarity_threshold, call.found, AlbumTracks)])

SpecResolve == InitResolve /\ [][GetTrackCall \/ GetTracksFromAlbumCall]_vars

\* RYMParser.parse_page and get_entries
InitParse ==
    \/ \E page \in SeqsUpTo(Nodes, MaxNodes) :
          Called([fn |-> "parse_page", list_items |-> page])
    \/ \E dir \in Dirs(Nodes) :
          Called([fn |-> "get_entries", dir |-> dir])

ParsePageCall ==
    /\ call.fn = "parse_page"
    /\ Return(parse_page(call.list_items))

GetEntriesCall ==
    /\ call.fn = "get_entries"
    /\ Return(get_entries(call.dir))

SpecParse == InitParse /\ [][ParsePageCall \/ GetEntriesCall]_vars

-----------------------------------------------------------------------------
(* The main pipeline, __main__ *)

\* str.lower() on the answers the model draws
Lower(answer) == IF answer = "Y" THEN "y" ELSE IF answer = "N" THEN "n" ELSE answer

Answers == {"y", "Y", "n", ""}
ExistingIds == {"PL_old"}        \* ids of playlists the user already has
PlaylistNames == {"mix"}         \* names for a new playlist
NewIds == {"PL_new"}             \* ids the service gives to created playlists

\* The pages the pipeline is run on: an album row, a single row, a row
\* without artist link.
RunNodes ==
    { Node(Link(<<<<"/", "release", "/", "album", "/", "x", "/">>>>, <<"x">>), <<<<"a">>>>),
      Node(Link(<<<<"/", "release", "/", "single", "/", "x", "/">>>>, <<"x">>), <<<<"a">>>>),
      Node(Link(<<<<"/", "release", "/", "album", "/", "x", "/">>>>, <<"x">>), <<>>) }

\* What a search for an entry may return: nothing, a first result that is
\* the entry itself, or a first result with another title.
SearchResults(entry, uris) ==
    { <<>>,
      <<Candidate(uris[1], entry.title, <<entry.artist>>)>>,
      <<Candidate(uris[2], entry.title \o <<"z">>, <<entry.artist>>)>> }

Init ==
    /\ call = [fn |-> "main"]
    /\ ret = [raised |-> FALSE, value |-> <<>>]
    /\ phase = "idle"
    /\ pc = "prompt"
    /\ add_to_existing = ""
    /\ playlist_name = ""
    /\ pages \in Dirs(RunNodes)
    /\ list_entries = <<>>
    /\ index = 0
    /\ to_be_added = <<>>
    /\ playlist = ""
    /\ resolved = <<>>
    /\ calls = <<>>

\* lines 338-345: the two prompts
Prompt ==
    /\ pc = "prompt"
    /\ \E answer \in Answers :
          /\ add_to_existing' = Lower(answer)
          /\ playlist_name' \in (IF Lower(answer) = "y" THEN ExistingIds
                                                       ELSE PlaylistNames)
    /\ pc' = "parse"
    /\ UNCHANGED <<callVars, pages, list_entries, index, to_be_added,
                   playlist, resolved, calls>>

\* line 352: an exception of get_entries ends the run
GetEntries ==
    /\ pc = "parse"
    /\ LET r == get_entries(pages) IN
          /\ list_entries' = r.value
          /\ pc' = IF r.raised THEN "failed" ELSE "resolve"
    /\ UNCHANGED <<callVars, add_to_existing, playlist_name, pages, index,
                   to_be_added, playlist, resolved, calls>>

\* lines 360-369: one iteration of the loop on an album entry
ResolveAlbum ==
    /\ pc = "resolve"
    /\ index < Len(list_entries)
    /\ LET list_entry == list_entries[index + 1] IN
          /\ list_entry.type = "album"
          /\ \E found \in SearchResults(list_entry, <<Uri("album", 1), Uri("album", 2)>>) :
                LET album_items ==
                        get_tracks_from_album(list_entry.artist, list_entry.title,
                                              DefaultThreshold, found, AlbumTracks)
                    listed ==
                        ListsAlbum(list_entry.artist, list_entry.title,
                                   DefaultThreshold, found)
                IN  /\ to_be_added' = to_be_added \o album_items
                    /\ resolved' = Append(resolved, album_items)
                    /\ calls' = calls
                          \o <<Request("search", "album",
                                       Query(list_entry.artist, list_entry.title))>>
                          \o (IF listed
                              THEN <<Request("album_tracks", TopHit(found).uri, <<>>)>>
                              ELSE <<>>)
    /\ index' = index + 1
    /\ UNCHANGED <<callVars, pc, add_to_existing, playlist_name, pages,
                   list_entries, playlist>>

\* lines 360-366, 370-372: one iteration of the loop on a track entry
ResolveTrack ==
    /\ pc = "resolve"
    /\ index < Len(list_entries)
    /\ LET list_entry == list_entries[index + 1] IN
          /\ list_entry.type # "album"
          /\ \E found \in SearchResults(list_entry, <<Uri("track", 107), Uri("track", 108)>>) :
                LET item == get_track(list_entry.artist, list_entry.title,
                                      DefaultThreshold, found)
                IN  /\ to_be_added' = Append(to_be_added, item)
                    /\ resolved' = Append(resolved, <<item>>)
                    /\ calls' = Append(calls,
                                       Request("search", "track",
                                               Query(list_entry.artist, list_entry.title)))
    /\ index' = index + 1
    /\ UNCHANGED <<callVars, pc, add_to_existing, playlist_name, pages,
                   list_entries, playlist>>

\* create_playlist called before the loop instead of after it
CreatePlaylist_AtStart ==
    /\ pc = "resolve"
    /\ index = 0
    /\ \A k \in 1..Len(calls) : calls[k].op # "user_playlist_create"
    /\ calls' = Append(calls, create_playlist(playlist_name))
    /\ playlist' \in NewIds
    /\ UNCHANGED <<callVars, pc, add_to_existing, playlist_name, pages,
                   list_entries, index, to_be_added, resolved>>

\* line 378, once the loop is over
CreatePlaylist ==
    /\ pc = "resolve"
    /\ index = Len(list_entries)
    /\ calls' = Append(calls, create_playlist(playlist_name))
    /\ playlist' \in NewIds
    /\ pc' = "add"
    /\ UNCHANGED <<callVars, add_to_existing, playlist_name, pages,
                   list_entries, index, to_be_added, resolved>>

\* line 381
AddTracks ==
    /\ pc = "add"
    /\ calls' = calls \o add_tracks_to_playlist(playlist, to_be_added)
    /\ pc' = "done"
    /\ UNCHANGED <<callVars, add_to_existing, playlist_name, pages,
                   list_entries, index, to_be_added, playlist, resolved>>

\* A call to the service raises; __main__ catches nothing, so the run ends
\* with the calls made so far: a search or the create call raises, the
\* listing of an album just found raises, or an append call raises after
\* some of the chunks went through.
ServiceError ==
    /\ \/ /\ pc = "resolve"
          /\ UNCHANGED calls
       \/ /\ pc = "resolve"
          /\ index < Len(list_entries)
          /\ list_entries[index + 1].type = "album"
          /\ calls' = Append(calls,
                             Request("search", "album",
                                     Query(list_entries[index + 1].artist,
                                           list_entries[index + 1].title)))
       \/ /\ pc = "add"
          /\ LET appends == add_tracks_to_playlist(playlist, to_be_added) IN
                \E k \in 0..(Len(appends) - 1) :
                    calls' = calls \o SubSeq(appends, 1, k)
    /\ pc' = "failed"
    /\ UNCHANGED <<callVars, add_to_existing, playlist_name, pages,
                   list_entries, index, to_be_added, playlist, resolved>>

Next ==
    \/ Prompt
    \/ GetEntries
    \/ ResolveAlbum
    \/ ResolveTrack
    \/ CreatePlaylist
    \/ AddTracks
    \/ ServiceError

Spec == Init /\ [][Next]_vars

-----------------------------------------------------------------------------
(* Properties *)

\* ceil(a / n) for a >= 0, n >= 1: the least c with c * n >= a.
CeilDiv(a, n) == CHOOSE c \in 0..a : c * n >= a /\ (c = 0 \/ (c - 1) * n < a)

PreExisting == add_to_existing = "y"

Positions(op) == {k \in 1..Len(calls) : calls[k].op = op}

\* C1: when the user chose to add to an existing playlist, no create-playlist
\* call is ever issued and every append call targets the playlist id the
\* user supplied (a create-playlist call is issued only for a new playlist).
C1_ExistingPlaylistIsReused ==
    PreExisting =>
        /\ Positions("user_playlist_create") = {}
        /\ \A k \in Positions("playlist_add_items") :
              calls[k].target = playlist_name

\* C2: the accumulated track-id list is the concatenation, in entry order, of
\* the non-empty resolver results only, so it holds no empty identifier.
C2_AccumulatesNonEmptyResultsOnly ==
    /\ to_be_added =
          Flatten([k \in 1..Len(resolved) |->
                     IF resolved[k] = <<EmptyStr>> THEN <<>> ELSE resolved[k]])
    /\ \A i \in 1..Len(to_be_added) : to_be_added[i] # EmptyStr

\* C3: the append calls of add_tracks_to_playlist are exactly the chunks of
\* the track ids by 99, one call per chunk, in order: ceil(len/99) calls, none
\* with more than 99 ids, their payloads concatenating to the track ids.
C3_OneAppendPerChunk ==
    Returned("add_tracks_to_playlist") =>
        LET t  == call.tracks
            cs == ret.value
        IN  /\ Len(cs) = CeilDiv(Len(t), 99)
            /\ \A c \in 1..Len(cs) :
                  /\ cs[c].op = "playlist_add_items"
                  /\ cs[c].target = call.playlist_id
                  /\ Len(cs[c].items) <= 99
                  /\ cs[c].items = SubSeq(t, (c - 1) * 99 + 1, Min(c * 99, Len(t)))
            /\ Flatten([c \in 1..Len(cs) |-> cs[c].items]) = t

\* C4: for every list and every size n >= 1 the chunks of divide_chunks
\* concatenate to the list, each has at most n elements, only the last may
\* have fewer, and there are ceil(len/n) of them.
C4_ChunksPartitionInOrder ==
    (Returned("divide_chunks") /\ call.n >= 1) =>
        LET l  == call.l
            n  == call.n
            cs == ret.value
        IN  /\ ~ret.raised
            /\ Flatten(cs) = l
            /\ \A c \in 1..Len(cs) :
                  /\ Len(cs[c]) <= n
                  /\ c < Len(cs) => Len(cs[c]) = n
            /\ Len(cs) = CeilDiv(Len(l), n)

\* C4 happens: a list longer than n >= 2 was split, the last chunk is short.
C4_Witness ==
    /\ Returned("divide_chunks")
    /\ call.n >= 2
    /\ Len(ret.value) >= 2
    /\ Len(ret.value[Len(ret.value)]) < call.n

\* C5: divide_chunks with a size of zero or below ends in an error and
\* returns no chunk list.
C5_NonPositiveSizeIsAnError ==
    (Returned("divide_chunks") /\ call.n <= 0) => ret.raised

\* C6: get_track returns a non-empty id iff the search found something and
\* the threshold is 0 or the first result's artist and title similarity are
\* both at least the threshold; the id is then the first result's; otherwise
\* it returns the empty string, and it never raises.
C6_TrackAcceptedIffFirstResultPassesBothGates ==
    Returned("get_track") =>
        LET found == call.found
            thr   == call.similarity_threshold
            accept ==
                /\ Len(found) >= 1
                /\ \/ thr = 0
                   \/ /\ AtLeast(str_similarity(found[1].artists[1], call.artist_name), thr)
                      /\ AtLeast(str_similarity(found[1].name, call.title), thr)
        IN  /\ ~ret.raised
            /\ (ret.value # EmptyStr) <=> accept
            /\ accept => ret.value = found[1].uri
            /\ ~accept => ret.value = EmptyStr

\* C6 happens: two results, a threshold above 0, the first one accepted
\* with a similarity that equals the threshold.
C6_Witness ==
    /\ Returned("get_track")
    /\ Len(call.found) = 2
    /\ call.similarity_threshold = 50
    /\ str_similarity(call.found[1].name, call.title) = <<2, 4>>
    /\ ret.value = call.found[1].uri

\* C7 as stated: get_tracks_from_album accepts by the rule of get_track, the
\* title scored as for a track (result first, query second).
C7_AlbumAcceptedByTheTrackRule ==
    Returned("get_tracks_from_album") =>
        LET found == call.found
            thr   == call.similarity_threshold
            accept ==
                /\ Len(found) >= 1
                /\ \/ thr = 0
                   \/ /\ AtLeast(str_similarity(found[1].artists[1], call.artist_name), thr)
                      /\ AtLeast(str_similarity(found[1].name, call.title), thr)
        IN  ret.value = IF accept THEN AlbumTracks[found[1].uri] ELSE <<>>

\* C7 (amended): get_tracks_from_album accepts the first album result iff the
\* threshold is 0 or both the artist similarity score(result artist, artist)
\* and the title similarity score(title, result name) are at least the
\* threshold; it then returns the track ids the service lists for that
\* album, in the service's order, and otherwise the empty list.
C7_AlbumAcceptedIffFirstResultPassesBothGates ==
    Returned("get_tracks_from_album") =>
        LET found == call.found
            thr   == call.similarity_threshold
            accept ==
                /\ Len(found) >= 1
                /\ \/ thr = 0
                   \/ /\ AtLeast(str_similarity(found[1].artists[1], call.artist_name), thr)
                      /\ AtLeast(str_similarity(call.title, found[1].name), thr)
        IN  /\ ~ret.raised
            /\ ret.value = IF accept THEN AlbumTracks[found[1].uri] ELSE <<>>

\* C7 happens: two album results, a threshold above 0, the first accepted
\* and its whole listing returned.
C7_Witness ==
    /\ Returned("get_tracks_from_album")
    /\ Len(call.found) = 2
    /\ call.similarity_threshold = DefaultThreshold
    /\ Len(ret.value) = MaxAlbum
    /\ ret.value[1] = Uri("track", MaxAlbum)

\* A page as the claims describe it: it has a node, and every node has its
\* release link (with its href), its artist label and its title label.
Malformed(page) ==
    \/ Len(page) = 0
    \/ \E i \in 1..Len(page) :
          \/ page[i].list_album = <<>>
          \/ page[i].list_artist = <<>>
          \/ page[i].list_album[1].href = <<>>

\* C8: parsing is all or nothing: parse_page fails on a page with no entry
\* node or with a node lacking its release link, artist label or title
\* label; get_entries fails on an empty collection and when any page fails;
\* neither returns entries then.
C8_MalformedPageAbortsParsing ==
    /\ (Returned("parse_page") /\ Malformed(call.list_items)) =>
          (ret.raised /\ ret.value = <<>>)
    /\ (Returned("get_entries")
          /\ (Len(call.dir) = 0 \/ \E p \in 1..Len(call.dir) : Malformed(call.dir[p]))) =>
          (ret.raised /\ ret.value = <<>>)

\* C8 happens: get_entries failed on a directory whose first page is well
\* formed and whose second page has a node without artist label.
C8_Witness ==
    /\ Returned("get_entries")
    /\ Len(call.dir) = 2
    /\ ~Malformed(call.dir[1])
    /\ Len(call.dir[2]) = 2
    /\ call.dir[2][1].list_artist # <<>>
    /\ call.dir[2][2].list_artist = <<>>
    /\ ret.raised

\* The entry the claims expect of a well-formed node.
ExpectedEntry(node) ==
    [artist |-> node.list_artist[1],
     title  |-> node.list_album[1].text,
     type   |-> IF Contains(<<"/", "release", "/", "single", "/">>,
                            node.list_album[1].href[1])
                THEN "track" ELSE "album"]

\* The number of nodes on the pages before page p.
RECURSIVE NodesBefore(_, _)
NodesBefore(dir, p) ==
    IF p <= 1 THEN 0 ELSE NodesBefore(dir, p - 1) + Len(dir[p - 1])

\* C9: a well-formed page of k nodes parses to k entries in document order,
\* the i-th with the labels of the i-th node and of kind track iff the node's
\* url contains "/release/single/"; get_entries returns the pages' entries
\* concatenated in the order of the pages.
C9_EntriesFollowTheDocument ==
    /\ (Returned("parse_page") /\ ~Malformed(call.list_items)) =>
          /\ ~ret.raised
          /\ Len(ret.value) = Len(call.list_items)
          /\ \A i \in 1..Len(call.list_items) :
                ret.value[i] = ExpectedEntry(call.list_items[i])
    /\ (Returned("get_entries") /\ Len(call.dir) > 0
          /\ \A p \in 1..Len(call.dir) : ~Malformed(call.dir[p])) =>
          /\ ~ret.raised
          /\ Len(ret.value) = NodesBefore(call.dir, Len(call.dir) + 1)
          /\ \A p \in 1..Len(call.dir) : \A i \in 1..Len(call.dir[p]) :
                ret.value[NodesBefore(call.dir, p) + i] = ExpectedEntry(call.dir[p][i])

\* C9 happens: two pages were parsed, an album on the first, then a single
\* whose url holds the pattern past its start and an album whose url holds
\* "single" without the pattern.
C9_Witness ==
    /\ Returned("get_entries")
    /\ ~ret.raised
    /\ Len(call.dir) = 2
    /\ Len(call.dir[1]) = 1
    /\ Len(call.dir[2]) = 2
    /\ call.dir[2][1].list_album[1].href[1][1] = "https:"
    /\ call.dir[2][2].list_album[1].href[1][4] = "ep"
    /\ <<ret.value[1].type, ret.value[2].type, ret.value[3].type>>
          = <<"album", "track", "album">>
    /\ ret.value[1].artist # ret.value[2].artist

Searches == Positions("search") \cup Positions("album_tracks")

\* C10 as stated: when a new playlist is requested it is created once, at
\* the start: before the first search, and before every append.
C10_CreatedBeforeTheSearches ==
    ~PreExisting =>
        /\ Cardinality(Positions("user_playlist_create")) <= 1
        /\ pc = "done" => Cardinality(Positions("user_playlist_create")) = 1
        /\ \A c \in Positions("user_playlist_create") :
              /\ \A k \in Searches : c < k
              /\ \A k \in Positions("playlist_add_items") : c < k

\* C10 (amended): when a new playlist is requested it is created exactly once
\* in a run that completes and never more than once, after the last catalog
\* search and listing call and before every append call.
C10_CreatedAfterTheSearches ==
    ~PreExisting =>
        /\ Cardinality(Positions("user_playlist_create")) <= 1
        /\ pc = "done" => Cardinality(Positions("user_playlist_create")) = 1
        /\ \A k \in Positions("playlist_add_items") :
              \E c \in Positions("user_playlist_create") : c < k
        /\ \A c \in Positions("user_playlist_create") :
              \A k \in Searches : k < c

\* C10 happens: a run for a new playlist completed with searches, one
\* create and several appends.
C10_Witness ==
    /\ ~PreExisting
    /\ pc = "done"
    /\ Cardinality(Positions("search")) >= 2
    /\ Cardinality(Positions("user_playlist_create")) = 1
    /\ Cardinality(Positions("playlist_add_items")) >= 2

=============================================================================
